---- MODULE Spec2Model ----
(***************************************************************************)
(* Model of the MicrochipSRAM driver (MicrochipSRAM.h): the template       *)
(* methods get, put and fillMemory, the member SRAMBytes, and the serial   *)
(* SRAM chip on the other end of the SPI bus, byte by byte.                *)
(*                                                                         *)
(* The constructor and clearMemory are only declared in the header; they   *)
(* are modelled from the specification's description (section 4.1).        *)
(*                                                                         *)
(* uint32_t values are pairs of 16-bit limbs [hi, lo], so that the wrap at *)
(* 2^32 of the C arithmetic is kept.                                       *)
(***************************************************************************)
EXTENDS Integers, Sequences, FiniteSets, TLC

VARIABLES
    scaled,     \* TRUE: the chip family is the scaled-down one (see Cap)
    chip,       \* the attached chip: [cap, seed, idle, mode, mem, ptr]
    SRAMBytes,  \* MicrochipSRAM::SRAMBytes
    cs,         \* level of the CS/SS pin: "LOW" or "HIGH"
    pc,         \* "new" | "idle" | "fill" | "clear" | "trapped"
    bus,        \* the bus events of the last operation, in order
    last,       \* the last completed get/put/fillMemory/clearMemory call
    written,    \* the last put since which nothing else was written
    fill,       \* locals of a running fillMemory
    modZero,    \* an address was evaluated modulo 0
    nops        \* number of calls made so far

vars == <<scaled, chip, SRAMBytes, cs, pc, bus, last, written, fill, modZero, nops>>

(***************************************************************************)
(* Bounds of the model.                                                    *)
(***************************************************************************)
\* the smallest chip of the scaled-down family holds 2^CapBits bytes
CapBits == 1
\* sizeof(T) ranges over 1..MaxSize
MaxSize == 2
\* number of calls made on one driver instance
MaxOps == 2

(***************************************************************************)
(* Constants declared in the class header.                                 *)
(***************************************************************************)
SRAM_WRITE_MODE_REG == 1
SRAM_BYTE_MODE == 0
SRAM_PAGE_MODE == 128
SRAM_SEQ_MODE == 192
SRAM_1024 == 131072
SRAM_512 == 65536
SRAM_256 == 32768
SRAM_128 == 16384
SRAM_64 == 8192
SRAM_WRITE_CODE == 2
SRAM_READ_CODE == 3

\* The capacity constant n as the model uses it: the constant itself, or,
\* in the scaled-down family, n shrunk so that SRAM_64 becomes 2^CapBits
\* (the five capacities keep their ratios, all remain powers of two).
Cap(n) == IF scaled THEN (n * (2 ^ CapBits)) \div SRAM_64 ELSE n

Candidates == <<SRAM_64, SRAM_128, SRAM_256, SRAM_512, SRAM_1024>>
Capacities == {Cap(Candidates[k]) : k \in 1..Len(Candidates)}

(***************************************************************************)
(* uint32_t arithmetic on 16-bit limbs.                                    *)
(***************************************************************************)
Limb == 2 ^ 16
U32(hi, lo) == [hi |-> hi, lo |-> lo]
Zero32 == U32(0, 0)
Max32 == U32(Limb - 1, Limb - 1)
FromNat(n) == U32((n \div Limb) % Limb, n % Limb)

\* x + n in uint32_t, n = sizeof(T)
AddU32(x, n) ==
    LET s == x.lo + n
    IN  U32((x.hi + (s \div Limb)) % Limb, s % Limb)

\* x - n in uint32_t, n = sizeof(T)
SubU32(x, n) ==
    LET d == x.lo - n
    IN  IF d >= 0 THEN U32(x.hi, d)
        ELSE U32((x.hi + Limb - 1) % Limb, d + Limb)

\* x < y in uint32_t
LessU32(x, y) == x.hi < y.hi \/ (x.hi = y.hi /\ x.lo < y.lo)

\* x % m in uint32_t, m > 0, digit by digit (no intermediate exceeds m * 256)
ModU32(x, m) ==
    LET r1 == x.hi % m
        r2 == (r1 * 256 + (x.lo \div 256)) % m
    IN  (r2 * 256 + (x.lo % 256)) % m

(***************************************************************************)
(* The bus: what the driver does to it, event by event.                    *)
(***************************************************************************)
LOW == 0
HIGH == 1
\* digitalWrite(_SSPin, level)
DigitalWrite(level) == [k |-> "cs", v |-> level]
\* SPI.transfer(b)
Transfer(b) == [k |-> "tx", v |-> b]
Transfers(bytes) == [i \in 1..Len(bytes) |-> Transfer(bytes[i])]

(***************************************************************************)
(* The chip.  cap is its capacity (0: nothing answers on the bus), mem     *)
(* holds the bytes written so far, every other byte has its power-on       *)
(* content InitByte(seed, a).  idle is the level the data line reads when  *)
(* the chip does not drive it.                                             *)
(***************************************************************************)
InitByte(seed, a) == IF seed = 0 THEN 0 ELSE (a * 7 + 165) % 256

MemAt(ch, a) == IF a \in DOMAIN ch.mem THEN ch.mem[a] ELSE InitByte(ch.seed, a)

MemPut(mem, a, b) ==
    [x \in (DOMAIN mem) \cup {a} |-> IF x = a THEN b ELSE mem[x]]

\* only the 1Mbit chips take 3 address bytes
ChipAddrBytes(ch) == IF ch.cap = Cap(SRAM_1024) THEN 3 ELSE 2

\* the address pointer after one data byte, by operating mode (2 MSB of the
\* mode register): sequential wraps at the end of memory, page wraps inside
\* the 32-byte page, byte mode transmits one byte only
AdvancePtr(ch) ==
    IF ch.mode \div 64 = SRAM_SEQ_MODE \div 64 THEN (ch.ptr + 1) % ch.cap
    ELSE IF ch.mode \div 64 = SRAM_PAGE_MODE \div 64
         THEN ((ch.ptr \div 32) * 32 + ((ch.ptr + 1) % 32)) % ch.cap
         ELSE ch.ptr

AfterData(ch) == IF ch.mode \div 64 \in {SRAM_SEQ_MODE \div 64, SRAM_PAGE_MODE \div 64}
                 THEN "data" ELSE "ignore"

\* one bus event seen by the chip; st = [chip, phase, cmd, need, acc, out],
\* out collects the byte clocked back by every transfer
ChipStep(st, ev) ==
    LET ch == st.chip
        silent == [st EXCEPT !.out = Append(st.out, ch.idle)]
    IN  IF ev.k = "cs"
        THEN [st EXCEPT !.phase = IF ev.v = LOW THEN "cmd" ELSE "off"]
        ELSE IF ch.cap = 0 \/ st.phase \in {"off", "ignore"} THEN silent
        ELSE IF st.phase = "cmd"
        THEN IF ev.v \in {SRAM_READ_CODE, SRAM_WRITE_CODE}
             THEN [silent EXCEPT !.phase = "addr", !.cmd = ev.v,
                                 !.need = ChipAddrBytes(ch), !.acc = 0]
             ELSE IF ev.v = SRAM_WRITE_MODE_REG
                  THEN [silent EXCEPT !.phase = "modereg"]
                  ELSE [silent EXCEPT !.phase = "ignore"]
        ELSE IF st.phase = "modereg"
        THEN [silent EXCEPT !.phase = "ignore", !.chip.mode = ev.v]
        ELSE IF st.phase = "addr"
        THEN LET a == (st.acc * 256 + ev.v) % ch.cap
             IN  IF st.need = 1
                 THEN [silent EXCEPT !.phase = "data", !.need = 0, !.acc = a,
                                     !.chip.ptr = a]
                 ELSE [silent EXCEPT !.need = st.need - 1, !.acc = a]
        ELSE \* data
             IF st.cmd = SRAM_WRITE_CODE
             THEN [silent EXCEPT !.chip.mem = MemPut(ch.mem, ch.ptr, ev.v),
                                 !.chip.ptr = AdvancePtr(ch),
                                 !.phase = AfterData(ch)]
             ELSE [st EXCEPT !.out = Append(st.out, MemAt(ch, ch.ptr)),
                             !.chip.ptr = AdvancePtr(ch),
                             !.phase = AfterData(ch)]

RECURSIVE ChipFeed(_, _, _)
ChipFeed(st, evs, i) ==
    IF i > Len(evs) THEN st ELSE ChipFeed(ChipStep(st, evs[i]), evs, i + 1)

\* the chip after the events evs, and the bytes it clocked back
RunBus(ch, evs) ==
    ChipFeed([chip |-> ch, phase |-> "off", cmd |-> 0, need |-> 0, acc |-> 0,
              out |-> <<>>], evs, 1)

(***************************************************************************)
(* get and put.  bytes is the value of SRAMBytes at the call.              *)
(***************************************************************************)
\* the address bytes sent: the MSB of the 24-bit address when the chip is
\* the 1Mbit one, then the 2nd byte, then the LSB
\* the address always sent in 2 bytes
AddressBytesTwoOnly(bytes, addr) == <<addr.lo \div 256, addr.lo % 256>>

AddressBytes(bytes, addr) ==
    (IF bytes = Cap(SRAM_1024) THEN <<addr.hi % 256>> ELSE <<>>)
        \o <<addr.lo \div 256, addr.lo % 256>>

\* get sending the LSB of the address before the 2nd byte
GetFrameLsbFirst(bytes, addr, n) ==
    <<DigitalWrite(LOW), Transfer(SRAM_READ_CODE)>>
        \o Transfers((IF bytes = Cap(SRAM_1024) THEN <<addr.hi % 256>> ELSE <<>>)
                        \o <<addr.lo % 256, addr.lo \div 256>>)
        \o [i \in 1..n |-> Transfer(0)]
        \o <<DigitalWrite(HIGH)>>

\* get deselecting the chip before the data bytes are clocked in
GetFrameEarlyDeselect(bytes, addr, n) ==
    <<DigitalWrite(LOW), Transfer(SRAM_READ_CODE)>>
        \o Transfers((IF bytes = Cap(SRAM_1024) THEN <<addr.hi % 256>> ELSE <<>>)
                        \o <<addr.lo \div 256, addr.lo % 256>>)
        \o <<DigitalWrite(HIGH)>>
        \o [i \in 1..n |-> Transfer(0)]

GetFrame(bytes, addr, n) ==
    <<DigitalWrite(LOW), Transfer(SRAM_READ_CODE)>>
        \o Transfers(AddressBytes(bytes, addr))
        \o [i \in 1..n |-> Transfer(0)]
        \o <<DigitalWrite(HIGH)>>

\* put sending the LSB of the address before the 2nd byte
PutFrameLsbFirst(bytes, addr, value) ==
    <<DigitalWrite(LOW), Transfer(SRAM_WRITE_CODE)>>
        \o Transfers((IF bytes = Cap(SRAM_1024) THEN <<addr.hi % 256>> ELSE <<>>)
                        \o <<addr.lo % 256, addr.lo \div 256>>)
        \o Transfers(value)
        \o <<DigitalWrite(HIGH)>>

PutFrame(bytes, addr, value) ==
    <<DigitalWrite(LOW), Transfer(SRAM_WRITE_CODE)>>
        \o Transfers(AddressBytes(bytes, addr))
        \o Transfers(value)
        \o <<DigitalWrite(HIGH)>>

\* returnAddress = (addr+sizeof(T))%SRAMBytes
ReturnAddress(bytes, addr, n) == FromNat(ModU32(AddU32(addr, n), bytes))

\* the bus transaction of get: the chip afterwards, the bytes stored
\* through bytePtr, and the events
DoGet(ch, bytes, addr, n) ==
    LET evs == GetFrame(bytes, addr, n)
        st == RunBus(ch, evs)
    IN  [chip |-> st.chip,
         value |-> SubSeq(st.out, Len(st.out) - n + 1, Len(st.out)),
         bus |-> evs]

DoPut(ch, bytes, addr, value) ==
    LET evs == PutFrame(bytes, addr, value)
        st == RunBus(ch, evs)
    IN  [chip |-> st.chip, value |-> value, bus |-> evs]

\* get and put return a reference to the local returnAddress, whose
\* lifetime ends with the call: what the caller reads through it is the
\* computed address or whatever else is found there
Dangling(ret) == {ret, Zero32, Max32}

\* the level of the CS/SS pin after the events evs
LevelAfter(level, evs) ==
    LET at == {i \in 1..Len(evs) : evs[i].k = "cs"}
    IN  IF at = {} THEN level
        ELSE evs[CHOOSE i \in at : \A j \in at : j <= i].v

(***************************************************************************)
(* The constructor: sequential mode, then the search for the capacity.     *)
(***************************************************************************)
\* write the mode register: sequential mode
ModeFrame ==
    <<DigitalWrite(LOW), Transfer(SRAM_WRITE_MODE_REG), Transfer(SRAM_SEQ_MODE),
      DigitalWrite(HIGH)>>

\* the two marker bytes written to the last address of a candidate: the
\* second one differs from the first byte of the chip as it was read
Marker(old) == <<255 - old, 255 - old>>

\* one candidate: read address 0, write the marker at cand - 1, read address
\* 0 again; the address width is the one the candidate requires
Probe(ch, cand) ==
    LET r0 == DoGet(ch, cand, Zero32, 1)
        r1 == DoPut(r0.chip, cand, FromNat(cand - 1), Marker(r0.value[1]))
        r2 == DoGet(r1.chip, cand, Zero32, 1)
    IN  [chip |-> r2.chip, wrapped |-> r2.value[1] # r0.value[1],
         bus |-> r0.bus \o r1.bus \o r2.bus]

\* the candidates in ascending order from the k-th on; bytes = 0 when none
\* of them shows the wraparound
RECURSIVE DetectFallsBackToMax(_, _, _)
\* the search settling for the largest capacity when nothing wrapped
DetectFallsBackToMax(ch, k, trace) ==
    IF k > Len(Candidates)
    THEN [chip |-> ch, bytes |-> Cap(Candidates[Len(Candidates)]), bus |-> trace]
    ELSE LET p == Probe(ch, Cap(Candidates[k]))
         IN  IF p.wrapped
             THEN [chip |-> p.chip, bytes |-> Cap(Candidates[k]),
                   bus |-> trace \o p.bus]
             ELSE DetectFallsBackToMax(p.chip, k + 1, trace \o p.bus)

RECURSIVE Detect(_, _, _)
Detect(ch, k, trace) ==
    IF k > Len(Candidates) THEN [chip |-> ch, bytes |-> 0, bus |-> trace]
    ELSE LET p == Probe(ch, Cap(Candidates[k]))
         IN  IF p.wrapped
             THEN [chip |-> p.chip, bytes |-> Cap(Candidates[k]),
                   bus |-> trace \o p.bus]
             ELSE Detect(p.chip, k + 1, trace \o p.bus)

NoCall == [op |-> "none", addr |-> Zero32, size |-> 0, data |-> <<>>, ret |-> Zero32]
NoPut == [valid |-> FALSE, addr |-> Zero32, value |-> <<>>]
NoFill == [addr |-> Zero32, start |-> Zero32, value |-> <<>>, puts |-> 0,
           lastPut |-> Zero32, ascending |-> TRUE]

\* MicrochipSRAM(SSPin)
Construct ==
    /\ pc = "new"
    /\ LET m == RunBus(chip, <<DigitalWrite(HIGH)>> \o ModeFrame)
           d == Detect(m.chip, 1, <<DigitalWrite(HIGH)>> \o ModeFrame)
       IN  /\ chip' = d.chip
           /\ SRAMBytes' = d.bytes
           /\ bus' = d.bus
           /\ cs' = LevelAfter(cs, d.bus)
    /\ pc' = "idle"
    /\ UNCHANGED <<scaled, last, written, fill, modZero, nops>>

(***************************************************************************)
(* The calls made on the constructed driver.                               *)
(***************************************************************************)
Sizes == 1..MaxSize
Values(n) == {[i \in 1..n |-> (90 + i) % 256]}
\* the addresses passed in: the first one, the last one of the chip, the
\* largest uint32_t, and the one the previous get or put returned
Addrs ==
    {Zero32, Max32}
        \cup (IF SRAMBytes > 0 THEN {FromNat(SRAMBytes - 1)} ELSE {})
        \cup (IF last.op \in {"get", "put"} THEN {last.ret} ELSE {})

\* what the caller reads as the result of get or put; with SRAMBytes = 0
\* the remainder itself is whatever the division leaves
Returned(bytes, addr, n) ==
    IF bytes = 0 THEN {Zero32, Max32} ELSE Dangling(ReturnAddress(bytes, addr, n))

\* get(addr, value), sizeof(T) = n
Get(addr, n) ==
    /\ pc = "idle"
    /\ nops < MaxOps
    /\ LET r == DoGet(chip, SRAMBytes, addr, n)
       IN  /\ chip' = r.chip
           /\ bus' = r.bus
           /\ cs' = LevelAfter(cs, r.bus)
           /\ \E seen \in Returned(SRAMBytes, addr, n) :
                last' = [op |-> "get", addr |-> addr, size |-> n,
                         data |-> r.value, ret |-> seen]
    /\ modZero' = (modZero \/ SRAMBytes = 0)
    /\ nops' = nops + 1
    /\ UNCHANGED <<scaled, SRAMBytes, pc, written, fill>>

\* put(addr, value), sizeof(T) = Len(value)
Put(addr, value) ==
    /\ pc = "idle"
    /\ nops < MaxOps
    /\ LET r == DoPut(chip, SRAMBytes, addr, value)
       IN  /\ chip' = r.chip
           /\ bus' = r.bus
           /\ cs' = LevelAfter(cs, r.bus)
           /\ \E seen \in Returned(SRAMBytes, addr, Len(value)) :
                last' = [op |-> "put", addr |-> addr, size |-> Len(value),
                         data |-> value, ret |-> seen]
    /\ written' = [valid |-> TRUE, addr |-> addr, value |-> value]
    /\ modZero' = (modZero \/ SRAMBytes = 0)
    /\ nops' = nops + 1
    /\ UNCHANGED <<scaled, SRAMBytes, pc, fill>>

\* addr<(SRAMBytes-sizeof(T))
FillGuard == LessU32(fill.addr, SubU32(FromNat(SRAMBytes), Len(fill.value)))

\* fillMemory(addr, value): entry.  The loop is followed on the scaled-down
\* family only, where it is short.
FillMemory(addr, value) ==
    /\ pc = "idle"
    /\ nops = 0
    /\ scaled
    /\ pc' = "fill"
    /\ fill' = [addr |-> addr, start |-> addr, value |-> value, puts |-> 0,
                lastPut |-> Zero32, ascending |-> TRUE]
    /\ bus' = <<>>
    /\ nops' = nops + 1
    /\ UNCHANGED <<scaled, chip, SRAMBytes, cs, last, written, modZero>>

\* one turn of the loop: addr = put(addr,value)
FillLoop ==
    /\ pc = "fill"
    /\ FillGuard
    /\ LET r == DoPut(chip, SRAMBytes, fill.addr, fill.value)
       IN  /\ chip' = r.chip
           /\ bus' = r.bus
           /\ cs' = LevelAfter(cs, r.bus)
    /\ \E seen \in Returned(SRAMBytes, fill.addr, Len(fill.value)) :
         fill' = [fill EXCEPT !.addr = seen, !.puts = 1, !.lastPut = fill.addr,
                              !.ascending = fill.ascending /\
                                  (fill.puts = 0 \/ LessU32(fill.lastPut, fill.addr))]
    /\ written' = [valid |-> TRUE, addr |-> fill.addr, value |-> fill.value]
    /\ modZero' = (modZero \/ SRAMBytes = 0)
    /\ UNCHANGED <<scaled, SRAMBytes, pc, last, nops>>

\* the loop ends and control flows off the end of fillMemory, which is
\* declared with a (reference) result and has no return statement: the call
\* returns, or the program is lost
FillReturn ==
    /\ pc = "fill"
    /\ ~FillGuard
    /\ pc' \in {"idle", "trapped"}
    /\ last' = [op |-> "fill", addr |-> fill.start, size |-> Len(fill.value),
                data |-> fill.value, ret |-> fill.addr]
    /\ UNCHANGED <<scaled, chip, SRAMBytes, cs, bus, written, fill, modZero, nops>>

\* the remainder by SRAMBytes = 0 stops the program on the builds that trap
DivideTrap ==
    /\ SRAMBytes = 0
    /\ \/ pc = "idle" /\ nops < MaxOps
       \/ pc = "fill" /\ FillGuard
    /\ pc' = "trapped"
    /\ modZero' = TRUE
    /\ UNCHANGED <<scaled, chip, SRAMBytes, cs, bus, last, written, fill, nops>>

\* clearMemory(clearValue): entry; clearValue = 0 is the default argument.
\* The loop is followed on the scaled-down family only.
ClearMemory(clearValue) ==
    /\ pc = "idle"
    /\ nops = 0
    /\ scaled
    /\ pc' = "clear"
    /\ fill' = [NoFill EXCEPT !.value = <<clearValue>>]
    /\ bus' = <<>>
    /\ nops' = nops + 1
    /\ UNCHANGED <<scaled, chip, SRAMBytes, cs, last, written, modZero>>

\* one turn of the loop: the byte is put at the next address
ClearLoop ==
    /\ pc = "clear"
    /\ LessU32(fill.addr, FromNat(SRAMBytes))
    /\ LET r == DoPut(chip, SRAMBytes, fill.addr, fill.value)
       IN  /\ chip' = r.chip
           /\ bus' = r.bus
           /\ cs' = LevelAfter(cs, r.bus)
    /\ fill' = [fill EXCEPT !.addr = AddU32(fill.addr, 1), !.puts = 1,
                            !.lastPut = fill.addr]
    /\ written' = [valid |-> TRUE, addr |-> fill.addr, value |-> fill.value]
    /\ UNCHANGED <<scaled, SRAMBytes, pc, last, modZero, nops>>

\* every address was written and clearMemory returns
ClearReturn ==
    /\ pc = "clear"
    /\ ~LessU32(fill.addr, FromNat(SRAMBytes))
    /\ pc' = "idle"
    /\ last' = [op |-> "clear", addr |-> Zero32, size |-> 1,
                data |-> fill.value, ret |-> Zero32]
    /\ UNCHANGED <<scaled, chip, SRAMBytes, cs, bus, written, fill, modZero, nops>>

(***************************************************************************)
(* Specifications.                                                         *)
(***************************************************************************)
\* before the constructor runs: any supported chip or none on the bus, with
\* any content and either idle level of the data line, in its power-on
\* byte mode
Fresh ==
    /\ chip \in [cap : Capacities \cup {0}, seed : {0, 1}, idle : {0, 255},
                 mode : {SRAM_BYTE_MODE}, mem : {<<>>}, ptr : {0}]
    /\ SRAMBytes = 0
    /\ cs = HIGH
    /\ pc = "new"
    /\ bus = <<>>
    /\ last = NoCall
    /\ written = NoPut
    /\ fill = NoFill
    /\ modZero = FALSE
    /\ nops = 0

Init == scaled \in BOOLEAN /\ Fresh

Next ==
    \/ Construct
    \/ \E a \in Addrs, n \in Sizes : Get(a, n)
    \/ \E a \in Addrs, n \in Sizes : \E v \in Values(n) : Put(a, v)
    \/ DivideTrap

\* the reads and writes, on the chips as they are and scaled down
Spec == Init /\ [][Next]_vars

InitFill == scaled = TRUE /\ Fresh

NextFill ==
    \/ Construct
    \/ \E a \in Addrs, n \in Sizes : \E v \in Values(n) : FillMemory(a, v)
    \/ FillLoop
    \/ FillReturn
    \/ DivideTrap
    \/ \E b \in {0, 255} : ClearMemory(b)
    \/ ClearLoop
    \/ ClearReturn

\* fillMemory and clearMemory as the first call, on the scaled-down chips
SpecFill == InitFill /\ [][NextFill]_vars

(***************************************************************************)
(* Properties.                                                             *)
(***************************************************************************)
Detected == SRAMBytes \in Capacities

\* C1: a get at the address and of the size of the put before it, with no
\* write in between, on a detected chip the value fits in, reads back the
\* bytes that were put, also when they straddle the top of the memory.
C1_RoundTrip ==
    (/\ last.op = "get"
     /\ written.valid
     /\ written.addr = last.addr
     /\ Len(written.value) = last.size
     /\ Detected
     /\ last.size <= SRAMBytes)
        => last.data = written.value

C1_Witness ==
    /\ ~scaled
    /\ SRAMBytes = SRAM_64
    /\ last.op = "get"
    /\ last.size = 2
    /\ last.addr = FromNat(SRAM_64 - 1)
    /\ written = [valid |-> TRUE, addr |-> last.addr, value |-> last.data]
    /\ MemAt(chip, 0) = last.data[2]

\* C2: what the caller of get or put receives is (addr + size) mod SRAMBytes,
\* an address below SRAMBytes.
C2_ReturnsNextAddress ==
    (last.op \in {"get", "put"} /\ Detected)
        => /\ last.ret = FromNat((ModU32(last.addr, SRAMBytes) + last.size) % SRAMBytes)
           /\ LessU32(last.ret, FromNat(SRAMBytes))

C4_FillLeavesNoGap ==
    (/\ pc = "idle"
     /\ last.op = "fill"
     /\ last.addr = Zero32
     /\ Detected
     /\ last.size <= SRAMBytes)
        => \A i \in 0..(SRAMBytes - (SRAMBytes % last.size) - 1) :
              MemAt(chip, i) = last.data[(i % last.size) + 1]

C6_NoChipNoCapacity == (chip.cap = 0) => (SRAMBytes = 0)

C6_Witness ==
    /\ pc = "idle"
    /\ chip.cap = 0
    /\ SRAMBytes = 0
    /\ Len(bus) > Len(ModeFrame) + 1

\* C7: while SRAMBytes is 0, no address is taken modulo 0 and a get, put or
\* fillMemory leaves the bus alone.
C7_GuardedWhenUnknown ==
    (SRAMBytes = 0)
        => /\ ~modZero
           /\ (last.op \in {"get", "put", "fill"}) => (bus = <<>>)

\* C8: the CS/SS pin is high between operations, no byte is transferred
\* while it is high, and the events of a get or put are: CS low, the command
\* byte (3 for get, 2 for put), the address big-endian in 3 bytes when
\* SRAMBytes is the 1Mbit capacity and in 2 bytes otherwise, one transfer
\* per byte of the value, CS high.
C8_OneFramePerCall ==
    /\ cs = HIGH
    /\ \A i \in 1..Len(bus) :
          (bus[i].k = "tx") => (LevelAfter(HIGH, SubSeq(bus, 1, i - 1)) = LOW)
    /\ (last.op \in {"get", "put"}) =>
          LET n == IF SRAMBytes = Cap(SRAM_1024) THEN 3 ELSE 2
          IN  /\ Len(bus) = 3 + n + last.size
              /\ bus[1] = [k |-> "cs", v |-> LOW]
              /\ bus[Len(bus)] = [k |-> "cs", v |-> HIGH]
              /\ \A i \in 2..(Len(bus) - 1) : bus[i].k = "tx"
              /\ bus[2].v = (IF last.op = "get" THEN 3 ELSE 2)
              /\ bus[n + 1].v * 256 + bus[n + 2].v = last.addr.lo
              /\ (n = 3) => (bus[3].v = last.addr.hi % 256)
              /\ (last.op = "put") =>
                    (\A i \in 1..last.size : bus[n + 2 + i].v = last.data[i])

C8_Witness ==
    /\ ~scaled
    /\ SRAMBytes = SRAM_1024
    /\ last.op = "put"
    /\ last.addr = FromNat(SRAM_1024 - 1)
    /\ last.size = 2
    /\ Len(bus) = 8
    /\ bus[3].v = 1

\* C9: what the caller of get or put receives is where the chip's address
\* pointer stands at the end of the transaction.
C9_ReturnIsChipPointer ==
    (last.op \in {"get", "put"} /\ Detected) => (last.ret = FromNat(chip.ptr))

\* C10: inside fillMemory every put is at an address above the one before.
C10_FillAscends ==
    (pc = "fill" /\ Detected /\ Len(fill.value) <= SRAMBytes) => fill.ascending

====
